---------------------------- MODULE Spec2Model ----------------------------
(***************************************************************************)
(* Product Performance Hub (src/app.py): a Streamlit script that builds a  *)
(* cached catalog of 7 synthetic product records and re-renders KPIs, a    *)
(* sorted comparison view, per-record target classification and a category *)
(* roll-up on every widget interaction.                                    *)
(*                                                                         *)
(* Three specifications share the operators below:                         *)
(*   Spec          the session: cache, widgets, one action per interaction *)
(*                 (each one a full top-to-bottom run of the script);      *)
(*   SpecRecord    the body of the generation loop (lines 24-36) applied   *)
(*                 to draws taken from samples of the code's ranges;       *)
(*   SpecClassify  the target classification (lines 159-161) applied to    *)
(*                 sampled (value, good, warning) triples.                 *)
(*                                                                         *)
(* Numbers with decimals are scaled integers: percentages and ratings      *)
(* before rounding are in hundredths, after round(x, 1) in tenths.         *)
(***************************************************************************)
EXTENDS Integers, Sequences, FiniteSets

VARIABLES
    cache,                    \* st.cache_data entry of generate_initial_data
    gen_calls,                \* executions of generate_initial_data's body
    runs,                     \* script runs so far in the session
    df_products,              \* line 40: what the access returned
    sort_column,              \* line 49
    sort_ascending,           \* line 50
    num_comparison_cols,      \* line 51
    target_good_threshold,    \* line 54
    target_warning_threshold, \* line 55
    selected_name,            \* line 78
    config_error,             \* line 55 raised, the run stopped there
    total_revenue,            \* line 71
    total_units,              \* line 72
    sorted_products_df,       \* line 140
    status_emoji,             \* lines 159-161, one per card, in card order
    category_performance,     \* line 168
    draws,                    \* SpecRecord: the random draws of one iteration
    record,                   \* SpecRecord: the record the iteration appended
    cl_in,                    \* SpecClassify: (value, good, warning)
    cl_out                    \* SpecClassify: the classification

appVars == <<cache, gen_calls, runs, df_products, sort_column, sort_ascending,
             num_comparison_cols, target_good_threshold,
             target_warning_threshold, selected_name, config_error,
             total_revenue, total_units, sorted_products_df, status_emoji,
             category_performance>>
recVars == <<draws, record>>
clVars == <<cl_in, cl_out>>
vars == <<appVars, recVars, clVars>>

---------------------------------------------------------------------------
(* Program constants.                                                      *)

product_names ==
    <<"Aurora Buds", "Nova Mug", "Zenith Mat", "Lumos Lamp", "Terra SSD",
      "Helios Charger", "Orion Mousepad">>

product_categories_map ==
    [n \in {product_names[k] : k \in 1..Len(product_names)} |->
        CASE n = "Aurora Buds" -> "Electronics"
          [] n = "Nova Mug" -> "Home Goods"
          [] n = "Zenith Mat" -> "Wellness"
          [] n = "Lumos Lamp" -> "Office"
          [] n = "Terra SSD" -> "Electronics"
          [] n = "Helios Charger" -> "Electronics"
          [] n = "Orion Mousepad" -> "Office"]

channels == <<"Organic", "Paid Social", "Email", "Affiliate">>

StockLevels == <<"In Stock", "Low", "Out">>

num_months == 12
FirstId == 201
RevStartLow == 300
RevStartHigh == 1500
RevStepLow == -100
RevStepHigh == 150
RevFloor == 50
UnitsStartLow == 10
UnitsStartHigh == 80
UnitsStepLow == -10
UnitsStepHigh == 20
UnitsFloor == 5
YtdMonths == 3
RatingLow == 350          \* 3.5, in hundredths
RatingHigh == 490         \* 4.9, in hundredths
TargetLow == 60
TargetHigh == 125
PctTotal == 10000         \* the Dirichlet vector times 100, in hundredths

---------------------------------------------------------------------------
(* Bounds of the model.                                                    *)

StartPoints == 2     \* each start range is sampled at StartPoints+1 values
StepPoints == 2      \* each step range is sampled at StepPoints+1 values
ChanPoints == 4      \* channel shares are sampled on a ChanPoints-grid
MaxRuns == 3         \* script runs in one session
MaxShifted == 2      \* products of a session that draw their neighbour's values
ThresholdStride == 10 \* the session enters thresholds ThresholdStride steps apart
ClassifyStride == 2  \* SpecClassify takes thresholds ClassifyStride steps apart

---------------------------------------------------------------------------
(* Helpers.                                                                *)

Max2(a, b) == IF a >= b THEN a ELSE b

SetMin(S) == CHOOSE x \in S : \A y \in S : x <= y
SetMax(S) == CHOOSE x \in S : \A y \in S : x >= y

RECURSIVE SumSeq(_)
SumSeq(s) == IF s = <<>> THEN 0 ELSE s[1] + SumSeq(Tail(s))

Reverse(s) == [k \in 1..Len(s) |-> s[Len(s) + 1 - k]]

(* n+1 values of S spread from its least to its greatest element, both     *)
(* included: the values the model draws from a range too large to          *)
(* enumerate.                                                              *)
SampleOf(S, n) ==
    LET lo == SetMin(S)
        hi == SetMax(S)
    IN  {lo + ((hi - lo) * t) \div n : t \in 0..n}

---------------------------------------------------------------------------
(* numpy and random primitives.                                            *)

(* Mutant of NpRandInt: the upper bound taken as attainable.               *)
NpRandIntClosed(low, high) == low..high

(* np.random.randint(low, high): the half-open range [low, high).          *)
NpRandInt(low, high) == low..(high - 1)

(* random.randint(a, b): the closed range [a, b].                          *)
PyRandInt(a, b) == a..b

(* np.cumsum: element k is the sum of the first k elements.                *)
Cumsum(steps) == [k \in 1..Len(steps) |-> SumSeq(SubSeq(steps, 1, k))]

(* Mutant of Clip: no clipping.                                            *)
ClipNone(a, floor) == a

(* np.clip(a, floor, None) on an array: a lower bound only.                *)
Clip(a, floor) == [k \in 1..Len(a) |-> Max2(a[k], floor)]

(* scalar + array broadcasts the scalar over the array.                    *)
AddScalar(x, a) == [k \in 1..Len(a) |-> x + a[k]]

(* Mutant of Round1: int(x), the decimals dropped.                         *)
TruncPercent(x) == {(x \div 100) * 10}

(* round(x, 1) of a float x given in hundredths, the result in tenths.     *)
(* A value whose second decimal is 5 is stored as the nearest binary       *)
(* double, which lies on either side of the tie: both results can occur.   *)
Round1(x) ==
    LET q == x \div 10
        r == x % 10
    IN  IF r < 5 THEN {q} ELSE IF r > 5 THEN {q + 1} ELSE {q, q + 1}

(* a[-3:] *)
Last3(a) == SubSeq(a, Len(a) - YtdMonths + 1, Len(a))

---------------------------------------------------------------------------
(* generate_initial_data, lines 14-38.                                     *)

(* line 24 *)
rev_trend(start, steps) == Clip(AddScalar(start, Cumsum(steps)), RevFloor)

(* line 25 *)
units_trend(start, steps) == Clip(AddScalar(start, Cumsum(steps)), UnitsFloor)

(* Mutant of YtdOf: the sum of the whole year.                             *)
YtdWholeYear(trend) == SumSeq(trend)

(* lines 29-30: int(np.sum(trend[-3:])) *)
YtdOf(trend) == SumSeq(Last3(trend))

RECURSIVE RoundAll(_)
RoundAll(ds) ==
    IF ds = <<>> THEN {<<>>}
    ELSE {<<r>> \o t : r \in Round1(Head(ds)), t \in RoundAll(Tail(ds))}

(* line 34: {ch: round(d, 1) for ch, d in zip(channels, chan_dist)}: the   *)
(* mappings the rounding can give for the vector chan_dist.                *)
ChannelsPct(chan_dist) ==
    {[ch \in {channels[k] : k \in 1..Len(channels)} |->
        r[CHOOSE j \in 1..Len(channels) : channels[j] = ch]] :
     r \in RoundAll(chan_dist)}

(* Lines 27-36, the record iteration i (from 0) appends, given its draws d *)
(* (rev_start, rev_steps, units_start, units_steps: the randint results of *)
(* lines 24-25; chan_dist: line 26; rating: random.uniform of line 33;     *)
(* stock: random.choice of line 33; target: random.randint of line 35).    *)
(* ID stands for f"P{i+201}" by its number.  A set: round() may go either  *)
(* way on a tie.                                                           *)
BuildRecord(i, d) ==
    LET rt == rev_trend(d.rev_start, d.rev_steps)
        ut == units_trend(d.units_start, d.units_steps)
        name == product_names[i + 1]
    IN  {[ID |-> FirstId + i,
          Name |-> name,
          Category |-> product_categories_map[name],
          YTD_Revenue |-> YtdOf(rt),
          YTD_Units |-> YtdOf(ut),
          Revenue_Trend |-> rt,
          Units_Trend |-> ut,
          Rating |-> r,
          Stock |-> d.stock,
          Channels |-> c,
          Target_Met |-> d.target] :
         r \in Round1(d.rating), c \in ChannelsPct(d.chan_dist)}

---------------------------------------------------------------------------
(* The ranges the draws of one iteration come from.                        *)

RevStartRange == NpRandInt(RevStartLow, RevStartHigh)
RevStepRange == NpRandInt(RevStepLow, RevStepHigh)
UnitsStartRange == NpRandInt(UnitsStartLow, UnitsStartHigh)
UnitsStepRange == NpRandInt(UnitsStepLow, UnitsStepHigh)
RatingRange == RatingLow..RatingHigh
TargetRange == PyRandInt(TargetLow, TargetHigh)
StockRange == {StockLevels[k] : k \in 1..Len(StockLevels)}

(* The least and greatest value each randint of lines 24-25 can return.    *)
RevStartMin == SetMin(RevStartRange)
RevStartMax == SetMax(RevStartRange)
RevStepMin == SetMin(RevStepRange)
RevStepMax == SetMax(RevStepRange)
UnitsStartMin == SetMin(UnitsStartRange)
UnitsStartMax == SetMax(UnitsStartRange)
UnitsStepMin == SetMin(UnitsStepRange)
UnitsStepMax == SetMax(UnitsStepRange)

(* Step vectors of num_months steps: a for the first j months, b after.    *)
StepVectors(S, n) ==
    {[m \in 1..num_months |-> IF m <= j THEN a ELSE b] :
        a \in SampleOf(S, n), b \in SampleOf(S, n), j \in 0..num_months}

(* Dirichlet vectors times 100 (hundredths, summing to PctTotal): the      *)
(* compositions of PctTotal on a grid of ChanPoints parts, each with e     *)
(* moved from the 2nd share to the 1st and f from the 4th to the 3rd, so   *)
(* that second decimals below, at and above 5 all occur.                   *)
Jitters == {0, 4, 5, 6}
ChanVectors ==
    LET unit == PctTotal \div ChanPoints
        G == 0..ChanPoints
    IN  {<<a * unit + e, b * unit - e, c * unit + f,
           PctTotal - (a + b + c) * unit - f>> :
            <<a, b, c, e, f>> \in
                {t \in G \X G \X G \X Jitters \X Jitters :
                    /\ t[1] + t[2] + t[3] <= ChanPoints
                    /\ t[2] * unit >= t[4]
                    /\ PctTotal - (t[1] + t[2] + t[3]) * unit >= t[5]}}

BaseDraw ==
    [rev_start |-> RevStartMin,
     rev_steps |-> [m \in 1..num_months |-> 0],
     units_start |-> UnitsStartMin,
     units_steps |-> [m \in 1..num_months |-> 0],
     chan_dist |-> [k \in 1..Len(channels) |-> PctTotal \div Len(channels)],
     rating |-> RatingLow,
     stock |-> StockLevels[1],
     target |-> TargetLow]

(* The draws SpecRecord starts from: one component of the draw ranges over *)
(* its sample (rating, stock and target over their whole range) while the  *)
(* others stay at BaseDraw; the components are computed independently.     *)
DrawSamples ==
    {[BaseDraw EXCEPT !.rev_start = s, !.rev_steps = v] :
        s \in SampleOf(RevStartRange, StartPoints),
        v \in StepVectors(RevStepRange, StepPoints)}
    \cup
    {[BaseDraw EXCEPT !.units_start = s, !.units_steps = v] :
        s \in SampleOf(UnitsStartRange, StartPoints),
        v \in StepVectors(UnitsStepRange, StepPoints)}
    \cup {[BaseDraw EXCEPT !.chan_dist = c] : c \in ChanVectors}
    \cup {[BaseDraw EXCEPT !.rating = r] : r \in RatingRange}
    \cup {[BaseDraw EXCEPT !.stock = s] : s \in StockRange}
    \cup {[BaseDraw EXCEPT !.target = t] : t \in TargetRange}

NoRecord == [ID |-> 0]

---------------------------------------------------------------------------
(* SpecRecord: one iteration of the loop of lines 23-36.                   *)

RecordIdle == draws = [i |-> 0, d |-> BaseDraw] /\ record = NoRecord

DrawsTaken ==
    /\ \E i \in 0..(Len(product_names) - 1), d \in DrawSamples :
          draws = [i |-> i, d |-> d]
    /\ record = NoRecord

LoopBody ==
    /\ record = NoRecord
    /\ record' \in BuildRecord(draws.i, draws.d)
    /\ UNCHANGED draws

---------------------------------------------------------------------------
(* Target classification, lines 159-161.                                   *)

(* Mutant of StatusOf: strict comparisons.                                 *)
StatusStrict(target_met_val, good, warning) ==
    IF target_met_val > good THEN "Good"
    ELSE IF target_met_val > warning THEN "Warning"
    ELSE "Needs Improvement"

StatusOf(target_met_val, good, warning) ==
    IF target_met_val >= good THEN "Good"
    ELSE IF target_met_val >= warning THEN "Warning"
    ELSE "Needs Improvement"

(* Sidebar ranges, lines 54-55.                                            *)
GoodMin == 0
GoodMax == 200
GoodDefault == 100
WarnMin == 0
WarnDefault == 80
ThresholdStep == 5
Unset == -1          \* a name the run never bound

(* SpecClassify draws the value from the multiples of ThresholdStep in the *)
(* good threshold's range and both thresholds from every ClassifyStride-th *)
(* of them, every pair included (warning above good too).                  *)
ClassifyInputs ==
    LET S == {x \in GoodMin..GoodMax : x % ThresholdStep = 0}
        T == {x \in S : x % (ThresholdStep * ClassifyStride) = 0}
    IN  S \X T \X T

ClassifyIdle == cl_in = <<0, 0, 0>> /\ cl_out = "none"

InputsTaken ==
    /\ cl_in \in ClassifyInputs
    /\ cl_out = "none"

Classify ==
    /\ cl_out = "none"
    /\ cl_out' = StatusOf(cl_in[1], cl_in[2], cl_in[3])
    /\ UNCHANGED cl_in

---------------------------------------------------------------------------
(* The catalog of a session.                                               *)

(* The draws of a session, one per iteration of the loop: product i draws  *)
(* point i of a grid over the code's ranges, except for at most MaxShifted *)
(* products, which draw point i+1 and so tie with the next product in      *)
(* every sort column.  Point k: starts, rating and target k steps up their *)
(* range, steps at the lowest value for k months and the highest after.    *)
KMax == Len(product_names)

GridPoint(lo, hi, k) == lo + k * ((hi - lo) \div KMax)

CatalogPoint(k) ==
    LET share == GridPoint(0, PctTotal \div 2, k)
    IN  [rev_start |-> GridPoint(RevStartMin, RevStartMax, k),
         rev_steps |-> [m \in 1..num_months |->
                          IF m <= k THEN RevStepMin ELSE RevStepMax],
         units_start |-> GridPoint(UnitsStartMin, UnitsStartMax, k),
         units_steps |-> [m \in 1..num_months |->
                            IF m <= k THEN UnitsStepMin ELSE UnitsStepMax],
         chan_dist |-> <<share, PctTotal \div 4, PctTotal \div 4,
                         PctTotal \div 2 - share>>,
         rating |-> GridPoint(RatingLow, RatingHigh, k),
         stock |-> StockLevels[(k % Len(StockLevels)) + 1],
         target |-> GridPoint(SetMin(TargetRange), SetMax(TargetRange), k)]

SessionDraws ==
    LET I == 0..(Len(product_names) - 1)
    IN  {[i \in I |-> CatalogPoint(IF i \in S THEN i + 1 ELSE i)] :
            S \in {T \in SUBSET I : Cardinality(T) <= MaxShifted}}

(* Lines 22-36: products_data after n iterations of the loop, iteration i  *)
(* drawing dr[i].                                                          *)
RECURSIVE products_data(_, _)
products_data(n, dr) ==
    IF n = 0 THEN {<<>>}
    ELSE {Append(pd, r) :
            pd \in products_data(n - 1, dr),
            r \in BuildRecord(n - 1, dr[n - 1])}

(* Lines 14-38: the data frames one execution of the body can return (rows *)
(* in insertion order, indexed by ID).                                     *)
generate_initial_data ==
    UNION {products_data(Len(product_names), dr) : dr \in SessionDraws}

NoCatalog == <<>>

(* Mutant of CachedCall: no memoization, the body runs on every call.      *)
CachedCallNoMemo(c) ==
    {[df |-> g, cache |-> g, ran |-> 1] : g \in generate_initial_data}

(* Lines 13 and 40: the call through st.cache_data.  The body runs when    *)
(* the cache holds no entry, and its result is stored; a later call gets   *)
(* the stored frame.  The outcomes: the frame returned, the cache after,   *)
(* and how often the body ran.                                             *)
CachedCall(c) ==
    IF c = NoCatalog
    THEN {[df |-> g, cache |-> g, ran |-> 1] : g \in generate_initial_data}
    ELSE {[df |-> c, cache |-> c, ran |-> 0]}

---------------------------------------------------------------------------
(* Views, lines 71-72, 140, 168.                                           *)

sort_by_options == {"YTD Revenue", "Rating", "YTD Units"}

ColumnOf(row, column) ==
    CASE column = "YTD Revenue" -> row.YTD_Revenue
      [] column = "Rating" -> row.Rating
      [] column = "YTD Units" -> row.YTD_Units

Column(df, column) == [k \in 1..Len(df) |-> ColumnOf(df[k], column)]

(* ndarray.argsort(kind="quicksort"), the default kind of sort_values:     *)
(* positions in non-decreasing order of their items.  The kind is not      *)
(* stable (numpy documents it so, and its vectorised kernels reorder equal *)
(* items on the builds that have them): equal items come in any order.     *)
RECURSIVE ArgsortFrom(_, _)
ArgsortFrom(items, rem) ==
    IF rem = {} THEN {<<>>}
    ELSE LET lo == SetMin({items[k] : k \in rem})
         IN  UNION {{<<m>> \o t : t \in ArgsortFrom(items, rem \ {m})} :
                      m \in {k \in rem : items[k] = lo}}

Argsort(items) == ArgsortFrom(items, 1..Len(items))

(* Mutant of Nargsort: the direction ignored.                              *)
NargsortAscendingOnly(items, ascending) == Argsort(items)

(* pandas nargsort: for a descending sort the items and their positions    *)
(* are reversed, argsorted, and the result reversed again.                 *)
Nargsort(items, ascending) ==
    LET n == Len(items)
        its == IF ascending THEN items ELSE Reverse(items)
        idx == IF ascending THEN [k \in 1..n |-> k]
               ELSE [k \in 1..n |-> n + 1 - k]
    IN  {LET indexer == [k \in 1..n |-> idx[p[k]]]
         IN  IF ascending THEN indexer ELSE Reverse(indexer) :
            p \in Argsort(its)}

(* line 140: df_products.sort_values(by=sort_column, ascending=...)        *)
SortValues(df, by, ascending) ==
    {[k \in 1..Len(df) |-> df[ix[k]]] :
        ix \in Nargsort(Column(df, by), ascending)}

RECURSIVE SumColumn(_, _)
SumColumn(df, column) ==
    IF df = <<>> THEN 0
    ELSE ColumnOf(Head(df), column) + SumColumn(Tail(df), column)

(* groupby keys come out sorted: the categories in lexicographic order.    *)
CategoryOrder == <<"Electronics", "Home Goods", "Office", "Wellness">>

InCategory(df, c) == SelectSeq(df, LAMBDA row : row.Category = c)

(* Mutant of GroupSums: each group reduced to its first row.               *)
GroupFirsts(df) ==
    LET keys == SelectSeq(CategoryOrder, LAMBDA c : InCategory(df, c) # <<>>)
    IN  [k \in 1..Len(keys) |->
            [Category |-> keys[k],
             YTD_Revenue |-> Head(InCategory(df, keys[k])).YTD_Revenue]]

(* groupby("Category")["YTD Revenue"].sum()                                *)
GroupSums(df) ==
    LET keys == SelectSeq(CategoryOrder, LAMBDA c : InCategory(df, c) # <<>>)
    IN  [k \in 1..Len(keys) |->
            [Category |-> keys[k],
             YTD_Revenue |-> SumColumn(InCategory(df, keys[k]), "YTD Revenue")]]

(* Mutant of CategoryPerformance: sorted descending.                       *)
CategoryPerformanceDescending(df) ==
    LET g == GroupSums(df)
    IN  {[k \in 1..Len(g) |-> g[ix[k]]] :
            ix \in Nargsort([k \in 1..Len(g) |-> g[k].YTD_Revenue], FALSE)}

(* line 168: the group sums, .sort_values(ascending=True)                  *)
CategoryPerformance(df) ==
    LET g == GroupSums(df)
    IN  {[k \in 1..Len(g) |-> g[ix[k]]] :
            ix \in Nargsort([k \in 1..Len(g) |-> g[k].YTD_Revenue], TRUE)}

---------------------------------------------------------------------------
(* Widgets.                                                                *)

(* st.number_input(min_value, max_value, value): the call raises when the  *)
(* default value lies outside [min_value, max_value]; otherwise it returns *)
(* what the user entered, or the default while the widget holds nothing.   *)
NumberInput(min_value, max_value, value, entered) ==
    IF value < min_value \/ value > max_value
    THEN [error |-> TRUE, value |-> Unset]
    ELSE [error |-> FALSE, value |-> IF entered = Unset THEN value ELSE entered]

(* The values a user enters into the two number inputs.                    *)
ThresholdInputs ==
    {x \in GoodMin..GoodMax : x % (ThresholdStep * ThresholdStride) = 0}

NumColsMin == 1
NumColsMax == 7
NumColsDefault == 3

(* The slider positions and the products a user selects.                   *)
NumColsInputs == {NumColsMin, NumColsDefault, NumColsMax}
ProductInputs == {product_names[1], product_names[Len(product_names)]}

---------------------------------------------------------------------------
(* One run of the script, top to bottom, with the widgets holding the      *)
(* given values (warn_entered: what the warning input holds, Unset for a   *)
(* widget the user has not touched).                                       *)

NotRendered ==
    /\ total_revenue' = Unset
    /\ total_units' = Unset
    /\ sorted_products_df' = <<>>
    /\ status_emoji' = <<>>
    /\ category_performance' = <<>>

RunScript(column, ascending, cols, good, warn_entered, name) ==
    /\ runs' = runs + 1
    /\ \E call \in CachedCall(cache) :                         \* line 40
          /\ cache' = call.cache
          /\ gen_calls' = gen_calls + call.ran
          /\ df_products' = call.df
    /\ sort_column' = column                                   \* line 49
    /\ sort_ascending' = ascending                             \* line 50
    /\ num_comparison_cols' = cols                             \* line 51
    /\ target_good_threshold' =                                \* line 54
          NumberInput(GoodMin, GoodMax, GoodDefault, good).value
    /\ selected_name' = name
    /\ LET warn == NumberInput(WarnMin, good - 1, WarnDefault, warn_entered)
       IN  /\ config_error' = warn.error                       \* line 55
           /\ target_warning_threshold' = warn.value
           /\ IF warn.error
              THEN NotRendered
              ELSE /\ total_revenue' = SumColumn(df_products', "YTD Revenue")
                   /\ total_units' = SumColumn(df_products', "YTD Units")
                   /\ sorted_products_df' \in
                         SortValues(df_products', column, ascending)
                   /\ status_emoji' =
                         [k \in 1..Len(sorted_products_df') |->
                            StatusOf(sorted_products_df'[k].Target_Met,
                                     good, warn.value)]
                   /\ category_performance' \in
                         CategoryPerformance(df_products')
    /\ UNCHANGED <<recVars, clVars>>

AppIdle ==
    /\ cache = NoCatalog
    /\ gen_calls = 0
    /\ runs = 0
    /\ df_products = NoCatalog
    /\ sort_column = "YTD Revenue"
    /\ sort_ascending = FALSE
    /\ num_comparison_cols = NumColsDefault
    /\ target_good_threshold = GoodDefault
    /\ target_warning_threshold = Unset
    /\ selected_name = product_names[1]
    /\ config_error = FALSE
    /\ total_revenue = Unset
    /\ total_units = Unset
    /\ sorted_products_df = <<>>
    /\ status_emoji = <<>>
    /\ category_performance = <<>>

Init == AppIdle /\ RecordIdle /\ ClassifyIdle

(* The first run of a session: every widget at its default.                *)
OpenPage ==
    /\ runs = 0
    /\ RunScript(sort_column, sort_ascending, num_comparison_cols,
                 target_good_threshold, Unset, selected_name)

Interactive == runs > 0 /\ runs < MaxRuns

(* A rerun with no widget changed.                                         *)
Rerun ==
    /\ Interactive
    /\ RunScript(sort_column, sort_ascending, num_comparison_cols,
                 target_good_threshold, target_warning_threshold,
                 selected_name)

SelectSortBy ==
    /\ Interactive
    /\ \E column \in sort_by_options \ {sort_column} :
          RunScript(column, sort_ascending, num_comparison_cols,
                    target_good_threshold, target_warning_threshold,
                    selected_name)

ToggleSortAscending ==
    /\ Interactive
    /\ RunScript(sort_column, ~sort_ascending, num_comparison_cols,
                 target_good_threshold, target_warning_threshold,
                 selected_name)

SlideNumCols ==
    /\ Interactive
    /\ \E cols \in NumColsInputs \ {num_comparison_cols} :
          RunScript(sort_column, sort_ascending, cols,
                    target_good_threshold, target_warning_threshold,
                    selected_name)

(* A new good threshold changes max_value of the warning input, which      *)
(* makes it a new widget: it holds nothing and starts from its default.    *)
EnterGoodThreshold ==
    /\ Interactive
    /\ \E good \in ThresholdInputs \ {target_good_threshold} :
          RunScript(sort_column, sort_ascending, num_comparison_cols,
                    good, Unset, selected_name)

(* The warning input exists only when line 55 did not raise, and accepts   *)
(* min_value..max_value.                                                   *)
EnterWarnThreshold ==
    /\ Interactive
    /\ ~config_error
    /\ \E warning \in (ThresholdInputs \cap
                         (WarnMin..(target_good_threshold - 1)))
                      \ {target_warning_threshold} :
          RunScript(sort_column, sort_ascending, num_comparison_cols,
                    target_good_threshold, warning, selected_name)

(* The product selector is below line 55: it exists only when the run got  *)
(* that far.                                                               *)
SelectProduct ==
    /\ Interactive
    /\ ~config_error
    /\ \E name \in ProductInputs \ {selected_name} :
          RunScript(sort_column, sort_ascending, num_comparison_cols,
                    target_good_threshold, target_warning_threshold, name)

Next ==
    \/ OpenPage
    \/ Rerun
    \/ SelectSortBy
    \/ ToggleSortAscending
    \/ SlideNumCols
    \/ EnterGoodThreshold
    \/ EnterWarnThreshold
    \/ SelectProduct

Spec == Init /\ [][Next]_vars

NextRecord == LoopBody /\ UNCHANGED <<appVars, clVars>>

InitRecord == AppIdle /\ DrawsTaken /\ ClassifyIdle

SpecRecord == InitRecord /\ [][NextRecord]_vars

NextClassify == Classify /\ UNCHANGED <<appVars, recVars>>

InitClassify == AppIdle /\ RecordIdle /\ InputsTaken

SpecClassify == InitClassify /\ [][NextClassify]_vars

---------------------------------------------------------------------------
(* Properties.                                                             *)

Rendered == runs > 0 /\ ~config_error

(* The values before clipping: start + d_1 + ... + d_k.                    *)
RawValue(start, steps, k) == start + SumSeq(SubSeq(steps, 1, k))

RECURSIVE SumOver(_, _, _)
SumOver(f, lo, hi) == IF lo > hi THEN 0 ELSE f[lo] + SumOver(f, lo + 1, hi)

(* C1: the catalog is generated exactly once, on the first access; every   *)
(* later run, whatever widget changed, gets the same frame (same ids,      *)
(* values and row order), and the cached frame is never changed.           *)
C1_CatalogMemoized ==
    [][/\ runs' > 0 => gen_calls' = 1
       /\ runs > 0 => /\ df_products' = df_products
                      /\ cache' = cache
                      /\ cache' = df_products']_vars

C1_Witness ==
    /\ runs = MaxRuns
    /\ gen_calls = 1
    /\ sort_column = "Rating"
    /\ target_good_threshold # GoodDefault
    /\ Len(df_products) = Len(product_names)

(* C2: both trends of a record have 12 elements, every revenue element is  *)
(* >= 50 and every units element is >= 5, whatever was drawn.              *)
C2_TrendsBounded ==
    record # NoRecord =>
        /\ Len(record.Revenue_Trend) = 12
        /\ Len(record.Units_Trend) = 12
        /\ \A k \in 1..12 : record.Revenue_Trend[k] >= 50
        /\ \A k \in 1..12 : record.Units_Trend[k] >= 5

C2_Witness ==
    /\ record # NoRecord
    /\ \E k \in 1..12 :
          /\ RawValue(draws.d.rev_start, draws.d.rev_steps, k) < 50
          /\ record.Revenue_Trend[k] = 50
    /\ \E k \in 1..12 :
          RawValue(draws.d.rev_start, draws.d.rev_steps, k) > 50

(* C3: ytdRevenue (ytdUnits) is the sum of months 10, 11 and 12 of the     *)
(* stored, clipped revenue (units) trend, and is not the sum of all 12.    *)
C3_YtdIsLastQuarter ==
    record # NoRecord =>
        /\ record.YTD_Revenue = record.Revenue_Trend[10]
              + record.Revenue_Trend[11] + record.Revenue_Trend[12]
        /\ record.YTD_Units = record.Units_Trend[10]
              + record.Units_Trend[11] + record.Units_Trend[12]
        /\ record.YTD_Revenue # SumOver(record.Revenue_Trend, 1, 12)
        /\ record.YTD_Units # SumOver(record.Units_Trend, 1, 12)

C3_Witness ==
    /\ record # NoRecord
    /\ RawValue(draws.d.rev_start, draws.d.rev_steps, 11) < 50
    /\ RawValue(draws.d.rev_start, draws.d.rev_steps, 12) > 50
    /\ record.YTD_Revenue = 100 + record.Revenue_Trend[12]

(* C4: with warning <= good the classification is Good iff the value is    *)
(* >= good, Warning iff warning <= value < good, Needs Improvement iff the *)
(* value is < warning; 100, 85 and 50 against good 100 and warning 80 are  *)
(* Good, Warning and Needs Improvement.                                    *)
C4_Classification ==
    /\ (cl_out # "none" /\ cl_in[3] <= cl_in[2]) =>
          /\ cl_out \in {"Good", "Warning", "Needs Improvement"}
          /\ cl_out = "Good" <=> cl_in[1] >= cl_in[2]
          /\ cl_out = "Warning" <=> (cl_in[3] <= cl_in[1] /\ cl_in[1] < cl_in[2])
          /\ cl_out = "Needs Improvement" <=> cl_in[1] < cl_in[3]
    /\ StatusOf(100, 100, 80) = "Good"
    /\ StatusOf(85, 100, 80) = "Warning"
    /\ StatusOf(50, 100, 80) = "Needs Improvement"

C4_Witness == cl_in = <<100, 100, 100>> /\ cl_out = "Good"

(* C5, as amended: the comparison view is a permutation of the 7 records   *)
(* ordered by the selected field in the selected direction.                *)
C5_SortedPermutation ==
    Rendered =>
        /\ Len(sorted_products_df) = 7
        /\ {sorted_products_df[k] : k \in 1..7} = {df_products[k] : k \in 1..7}
        /\ \A k \in 1..6 :
              IF sort_ascending
              THEN ColumnOf(sorted_products_df[k], sort_column)
                      <= ColumnOf(sorted_products_df[k + 1], sort_column)
              ELSE ColumnOf(sorted_products_df[k], sort_column)
                      >= ColumnOf(sorted_products_df[k + 1], sort_column)

(* Rows that tie in the sort column, in a view sorted ascending.           *)
C5_Witness ==
    /\ Rendered
    /\ sort_ascending
    /\ sort_column = "YTD Units"
    /\ \E a, b \in 1..7 :
          /\ a < b
          /\ sorted_products_df[a].YTD_Units = sorted_products_df[b].YTD_Units
    /\ \E a, b \in 1..7 :
          sorted_products_df[a].YTD_Units < sorted_products_df[b].YTD_Units

(* C5 as stated: moreover rows with equal values of the sort field keep    *)
(* their catalog order (ids are assigned in catalog order).                *)
C5_StableSort ==
    /\ C5_SortedPermutation
    /\ Rendered =>
          \A a, b \in 1..Len(sorted_products_df) :
              (/\ a < b
               /\ ColumnOf(sorted_products_df[a], sort_column)
                     = ColumnOf(sorted_products_df[b], sort_column))
              => sorted_products_df[a].ID < sorted_products_df[b].ID

(* C6: category_performance has one entry per category of the catalog,    *)
(* its total the sum of YTD Revenue over the records of that category, and *)
(* the entries are in ascending order of total.                            *)
C6_CategoryTotals ==
    Rendered =>
        LET cp == category_performance
            n == Len(cp)
        IN  /\ {cp[k].Category : k \in 1..n}
                  = {df_products[k].Category : k \in 1..Len(df_products)}
            /\ \A a, b \in 1..n : cp[a].Category = cp[b].Category => a = b
            /\ \A k \in 1..n :
                  cp[k].YTD_Revenue =
                     SumOver([j \in 1..Len(df_products) |->
                                IF df_products[j].Category = cp[k].Category
                                THEN df_products[j].YTD_Revenue ELSE 0],
                             1, Len(df_products))
            /\ \A k \in 1..(n - 1) : cp[k].YTD_Revenue <= cp[k + 1].YTD_Revenue

C6_Witness ==
    /\ Rendered
    /\ Len(category_performance) = 4
    /\ category_performance[4].Category = "Electronics"
    /\ category_performance[4].YTD_Revenue =
          df_products[1].YTD_Revenue + df_products[5].YTD_Revenue
             + df_products[6].YTD_Revenue
    /\ category_performance[1].YTD_Revenue = category_performance[2].YTD_Revenue

(* C7: a record's channel shares have exactly the keys Organic, Paid       *)
(* Social, Email and Affiliate, no value is negative, and the four values  *)
(* (tenths of a percent here) sum to within less than 1.0 of 100.          *)
C7_ChannelShares ==
    record # NoRecord =>
        LET c == record.Channels
            total == c["Organic"] + c["Paid Social"] + c["Email"] + c["Affiliate"]
        IN  /\ DOMAIN c = {"Organic", "Paid Social", "Email", "Affiliate"}
            /\ \A ch \in DOMAIN c : c[ch] >= 0
            /\ total - 1000 < 10
            /\ 1000 - total < 10

(* Every share on a tie and rounded up: the sum is 100.2.                  *)
C7_Witness ==
    /\ record # NoRecord
    /\ \A k \in 1..4 : draws.d.chan_dist[k] % 10 = 5
    /\ SumOver([k \in 1..4 |-> record.Channels[channels[k]]], 1, 4) = 1002

(* C8: whatever good threshold the sidebar accepted, the run has a valid   *)
(* warning threshold below it and is not in an error state.  The code      *)
(* breaks this for every good threshold <= 80: the warning input's default *)
(* of 80 then exceeds its max_value and line 55 raises.                    *)
C8_WarningAlwaysValid ==
    runs > 0 =>
        /\ ~config_error
        /\ target_warning_threshold >= 0
        /\ target_warning_threshold < target_good_threshold

(* C9: the Total Revenue KPI is the sum of YTD Revenue over the 7 records  *)
(* and equals the sum of the category totals.                              *)
C9_TotalRevenue ==
    Rendered =>
        /\ Len(df_products) = 7
        /\ total_revenue =
              SumOver([k \in 1..7 |-> df_products[k].YTD_Revenue], 1, 7)
        /\ total_revenue =
              SumOver([k \in 1..Len(category_performance) |->
                         category_performance[k].YTD_Revenue],
                      1, Len(category_performance))

C9_Witness ==
    /\ Rendered
    /\ runs > 1
    /\ total_revenue > 7 * YtdMonths * RevFloor
    /\ \E a, b \in 1..7 : df_products[a].YTD_Revenue # df_products[b].YTD_Revenue

(* The reference rule of a trend: element k is max(floor, start + d_1 +    *)
(* ... + d_k).                                                             *)
FollowsRule(trend, start, steps, floor) ==
    /\ Len(trend) = 12
    /\ \A k \in 1..12 : trend[k] = Max2(floor, RawValue(start, steps, k))

TrendsFollowRule ==
    /\ FollowsRule(record.Revenue_Trend, draws.d.rev_start,
                   draws.d.rev_steps, 50)
    /\ FollowsRule(record.Units_Trend, draws.d.units_start,
                   draws.d.units_steps, 5)

(* C10, as amended: the trends are those of the reference rule with the    *)
(* start and every step drawn from ranges whose upper bound is excluded:   *)
(* revenue start 300..1499 and step -100..149, units start 10..79 and step *)
(* -10..19, every value of these ranges attainable.                        *)
C10_TrendRuleHalfOpen ==
    record # NoRecord =>
        /\ TrendsFollowRule
        /\ draws.d.rev_start \in 300..1499
        /\ \A m \in 1..12 : draws.d.rev_steps[m] \in -100..149
        /\ draws.d.units_start \in 10..79
        /\ \A m \in 1..12 : draws.d.units_steps[m] \in -10..19
        /\ RevStartRange = 300..1499
        /\ RevStepRange = -100..149
        /\ UnitsStartRange = 10..79
        /\ UnitsStepRange = -10..19

(* The greatest start and step the code can draw, and a clipped month     *)
(* followed by a month that rises from the unclipped sum.                  *)
C10_Witness ==
    /\ record # NoRecord
    /\ draws.d.units_start = 79
    /\ draws.d.units_steps[1] = -10
    /\ draws.d.units_steps[12] = 19
    /\ \E k \in 1..11 :
          /\ RawValue(draws.d.units_start, draws.d.units_steps, k) < 5
          /\ record.Units_Trend[k] = 5
          /\ record.Units_Trend[k + 1] =
                RawValue(draws.d.units_start, draws.d.units_steps, k) + 19

(* C10 as stated: the ranges are closed, 1500, 150, 80 and 20 included.    *)
C10_ClosedRanges ==
    record # NoRecord =>
        /\ TrendsFollowRule
        /\ RevStartRange = 300..1500
        /\ RevStepRange = -100..150
        /\ UnitsStartRange = 10..80
        /\ UnitsStepRange = -10..20
===========================================================================
